---- MODULE Spec2Model ----
(***************************************************************************)
(* Request resolution of the political-representatives API:                *)
(*   - the in-process rate limiter (backend/middleware/validation.js),     *)
(*   - the Joi query validator (createValidator),                          *)
(*   - the representatives router (backend/routes/representatives.js):     *)
(*     ZIP lookup, detail lookup, search, in their registration order,     *)
(*   - the storage the handlers query (database/schema.sql),               *)
(*   - the transaction wrapper (backend/models/database.js).               *)
(* A string value is a TLA+ string; Spelling gives its characters where    *)
(* the code or the storage engine looks at them one by one.  The :id path  *)
(* segment is held as the tuple of its characters.                         *)
(***************************************************************************)
EXTENDS Integers, Sequences, FiniteSets, TLC

VARIABLES
    db,             \* the three tables of the schema
    windowMs,       \* rateLimit option captured by the middleware closure
    maxRequests,    \* rateLimit option captured by the middleware closure
    rateLimitStore, \* Map: client key -> array of timestamps
    now,            \* Date.now()
    reqs,           \* the requests being handled, and their responses
    calls,          \* history of the limiter's decisions
    transactions,   \* the calls of transaction(callback) in progress
    committed       \* the writes that storage has made durable

vars == <<db, windowMs, maxRequests, rateLimitStore, now, reqs, calls,
          transactions, committed>>

(***************************************************************************)
(* Bounds                                                                  *)
(***************************************************************************)
MaxClock == 2      \* the clock runs from 0 to MaxClock
MaxCalls == 4      \* requests received in one behaviour
MaxIdLen == 2      \* length of the :id path segments tried
MaxSteps == 2      \* statements a transaction callback runs

(***************************************************************************)
(* Characters and strings                                                  *)
(***************************************************************************)
Digits == <<"0", "1", "2", "3", "4", "5", "6", "7", "8", "9">>

UpperCase == <<"A", "B", "C", "D", "E", "F", "G", "H", "I", "J", "K", "L", "M",
               "N", "O", "P", "Q", "R", "S", "T", "U", "V", "W", "X", "Y", "Z">>

LowerCase == <<"a", "b", "c", "d", "e", "f", "g", "h", "i", "j", "k", "l", "m",
               "n", "o", "p", "q", "r", "s", "t", "u", "v", "w", "x", "y", "z">>

\* the characters in code-point order: space, digits, upper case, lower case
Alphabet == <<" ">> \o Digits \o UpperCase \o LowerCase

CodeTable ==
    [c \in {Alphabet[i] : i \in 1..Len(Alphabet)} |->
        CHOOSE i \in 1..Len(Alphabet) : Alphabet[i] = c]

Code(c) == CodeTable[c]

IsDigit(c) == \E i \in 1..Len(Digits) : Digits[i] = c

DigitValue(c) == (CHOOSE i \in 1..Len(Digits) : Digits[i] = c) - 1

ToLower(c) ==
    IF \E i \in 1..Len(UpperCase) : UpperCase[i] = c
    THEN LowerCase[CHOOSE i \in 1..Len(UpperCase) : UpperCase[i] = c]
    ELSE c

ToUpper(c) ==
    IF \E i \in 1..Len(LowerCase) : LowerCase[i] = c
    THEN UpperCase[CHOOSE i \in 1..Len(LowerCase) : LowerCase[i] = c]
    ELSE c

LowerStr(s) == [i \in 1..Len(s) |-> ToLower(s[i])]

UpperStr(s) == [i \in 1..Len(s) |-> ToUpper(s[i])]

\* s <= t in the order of ORDER BY r.name (code points, shorter prefix first)
StrLeq(s, t) ==
    \/ \E k \in 1..Len(s) :
          /\ k <= Len(t)
          /\ \A j \in 1..(k - 1) : s[j] = t[j]
          /\ Code(s[k]) < Code(t[k])
    \/ /\ Len(s) <= Len(t)
       /\ \A j \in 1..Len(s) : s[j] = t[j]

\* pattern occurs in s as a contiguous substring
Contains(s, pattern) ==
    \E i \in 0..(Len(s) - Len(pattern)) :
        \A j \in 1..Len(pattern) : s[i + j] = pattern[j]

\* s ILIKE '%pattern%' (no wildcard characters in the pattern)
ILike(s, pattern) == Contains(LowerStr(s), LowerStr(pattern))

IsZipPrefix(s) == Len(s) >= 4 /\ \A i \in 1..4 : IsDigit(s[i])

\* /^\d{5}$/
IsZip(s) == Len(s) = 5 /\ \A i \in 1..5 : IsDigit(s[i])

\* parseInt(s): leading white space is skipped, then the longest run of
\* decimal digits is read; no digit there gives NaN
SkipSpaces(s) ==
    LET k == CHOOSE n \in 0..Len(s) :
                 /\ \A i \in 1..n : s[i] = " "
                 /\ (n = Len(s) \/ s[n + 1] # " ")
    IN  SubSeq(s, k + 1, Len(s))

DigitPrefixLen(s) ==
    CHOOSE n \in 0..Len(s) :
        /\ \A i \in 1..n : IsDigit(s[i])
        /\ (n = Len(s) \/ ~IsDigit(s[n + 1]))

RECURSIVE DecimalValue(_, _)
DecimalValue(s, n) ==
    IF n = 0 THEN 0 ELSE DecimalValue(s, n - 1) * 10 + DigitValue(s[n])

parseInt(s) ==
    LET t == SkipSpaces(s)
        n == DigitPrefixLen(t)
    IN  IF n = 0 THEN [isNaN |-> TRUE, value |-> 0]
        ELSE [isNaN |-> FALSE, value |-> DecimalValue(t, n)]

(***************************************************************************)
(* Storage: database/schema.sql                                            *)
(***************************************************************************)
Branches == {"federal", "state", "local"}

\* the characters of the string values that occur in the tables and requests
Spelling(s) ==
    CASE s = "" -> <<>>
      [] s = "11354" -> <<"1", "1", "3", "5", "4">>
      [] s = "20301" -> <<"2", "0", "3", "0", "1">>
      [] s = "90210" -> <<"9", "0", "2", "1", "0">>
      [] s = "99999" -> <<"9", "9", "9", "9", "9">>
      [] s = "1135" -> <<"1", "1", "3", "5">>
      [] s = "10001" -> <<"1", "0", "0", "0", "1">>
      [] s = "2" -> <<"2">>
      [] s = "a" -> <<"a">>
      [] s = "113541" -> <<"1", "1", "3", "5", "4", "1">>
      [] s = "1135a" -> <<"1", "1", "3", "5", "a">>
      [] s = "NY" -> <<"N", "Y">>
      [] s = "DC" -> <<"D", "C">>
      [] s = "CA" -> <<"C", "A">>
      [] s = "ny" -> <<"n", "y">>
      [] s = "5" -> <<"5">>
      [] s = "1" -> <<"1">>
      [] s = "Grace Meng" -> <<"G", "r", "a", "c", "e", " ", "M", "e", "n", "g">>
      [] s = "Chuck Schumer" ->
             <<"C", "h", "u", "c", "k", " ", "S", "c", "h", "u", "m", "e", "r">>
      [] s = "Kirsten Gillibrand" ->
             <<"K", "i", "r", "s", "t", "e", "n", " ",
               "G", "i", "l", "l", "i", "b", "r", "a", "n", "d">>
      [] s = "Kathy Hochul" -> <<"K", "a", "t", "h", "y", " ", "H", "o", "c", "h", "u", "l">>
      [] s = "Al Green" -> <<"A", "l", " ", "G", "r", "e", "e", "n">>
      [] s = "schumer" -> <<"s", "c", "h", "u", "m", "e", "r">>
      [] s = "Democratic" -> <<"D", "e", "m", "o", "c", "r", "a", "t", "i", "c">>
      [] s = "dem" -> <<"d", "e", "m">>

\* the values of representatives.name
Names == {"Grace Meng", "Chuck Schumer", "Kirsten Gillibrand", "Kathy Hochul", "Al Green"}

\* a <= b in the order of ORDER BY r.name, tabulated
NameLeq == [a \in Names, b \in Names |-> StrLeq(Spelling(a), Spelling(b))]

\* INSERT INTO geography
SampleGeography ==
    { [id |-> 1, zip_code |-> "11354", state |-> "NY"],
      [id |-> 2, zip_code |-> "20301", state |-> "DC"],
      [id |-> 3, zip_code |-> "90210", state |-> "CA"] }

\* INSERT INTO representatives
SampleRepresentatives ==
    { [id |-> 1, name |-> "Grace Meng", party |-> "Democratic",
       branch |-> "federal", is_active |-> TRUE],
      [id |-> 2, name |-> "Chuck Schumer", party |-> "Democratic",
       branch |-> "federal", is_active |-> TRUE],
      [id |-> 3, name |-> "Kirsten Gillibrand", party |-> "Democratic",
       branch |-> "federal", is_active |-> TRUE],
      [id |-> 4, name |-> "Kathy Hochul", party |-> "Democratic",
       branch |-> "state", is_active |-> TRUE] }

\* INSERT INTO rep_geography_map
SampleMap ==
    { [representative_id |-> 1, geography_id |-> 1, jurisdiction_level |-> "federal"],
      [representative_id |-> 2, geography_id |-> 1, jurisdiction_level |-> "federal"],
      [representative_id |-> 3, geography_id |-> 1, jurisdiction_level |-> "federal"],
      [representative_id |-> 4, geography_id |-> 1, jurisdiction_level |-> "state"] }

SampleDb ==
    [geography |-> SampleGeography,
     representatives |-> SampleRepresentatives,
     rep_geography_map |-> SampleMap]

\* One more row of representatives (the next SERIAL id), as the ingestion
\* agent may have written it: any branch, active or not, named like an
\* existing row or not, mapped to any of the first two geographies at a level that
\* is or is not its branch.
ExtraId == Cardinality(SampleRepresentatives) + 1

ExtraNames == {"Al Green", "Chuck Schumer"}

ExtraRepresentatives ==
    { [id |-> ExtraId, name |-> n, party |-> "Democratic", branch |-> b, is_active |-> a] :
        n \in ExtraNames, b \in Branches, a \in BOOLEAN }

ExtraMaps ==
    { { [representative_id |-> ExtraId, geography_id |-> g, jurisdiction_level |-> l] :
          g \in gs } : gs \in SUBSET {1, 2}, l \in {"federal", "local"} }

Databases ==
    {SampleDb} \cup
    { [geography |-> SampleGeography,
       representatives |-> SampleRepresentatives \cup {r},
       rep_geography_map |-> SampleMap \cup m] :
        r \in ExtraRepresentatives, m \in ExtraMaps }

\* UNIQUE(zip_code), PRIMARY KEY(id), UNIQUE(representative_id, geography_id),
\* the foreign keys and the CHECK constraints of the schema
SchemaOk(d) ==
    /\ \A g, h \in d.geography : (g.zip_code = h.zip_code \/ g.id = h.id) => g = h
    /\ \A r, q \in d.representatives : r.id = q.id => r = q
    /\ \A r \in d.representatives : r.branch \in Branches
    /\ \A m, n \in d.rep_geography_map :
          (m.representative_id = n.representative_id /\ m.geography_id = n.geography_id)
              => m = n
    /\ \A m \in d.rep_geography_map :
          /\ m.jurisdiction_level \in Branches
          /\ \E r \in d.representatives : r.id = m.representative_id
          /\ \E g \in d.geography : g.id = m.geography_id

(***************************************************************************)
(* Requests                                                                *)
(***************************************************************************)
Clients == {"ip1", "ip2"}

\* the path below the router's mount point: "/" or one segment
Root == <<>>
SearchSegment == <<"s", "e", "a", "r", "c", "h">>

Has(q, k) == k \in DOMAIN q

NoQuery == [k \in {} |-> ""]

\* a query string with the given parameters; absent ones are given as {}
Param(k, vs) == {NoQuery} \cup {k :> v : v \in vs}

(***************************************************************************)
(* Rate limiter: middleware/validation.js                                  *)
(***************************************************************************)
\* rateLimitStore.get(clientIP) || []
clientRequests(store, clientIP) ==
    IF clientIP \in DOMAIN store THEN store[clientIP] ELSE <<>>

KeepTimestampInclusive(timestamp, windowStart) == timestamp >= windowStart

\* timestamp => timestamp > windowStart
KeepTimestamp(timestamp, windowStart) == timestamp > windowStart

\* clientRequests.filter(timestamp => timestamp > windowStart)
validRequests(store, clientIP, t, window) ==
    LET windowStart == t - window
        Keep(timestamp) == KeepTimestamp(timestamp, windowStart)
    IN  SelectSeq(clientRequests(store, clientIP), Keep)

LimitExceededOffByOne(valid, max) == Len(valid) > max

\* validRequests.length >= maxRequests
LimitExceeded(valid, max) == Len(valid) >= max

\* Math.ceil(windowMs / 1000)
retryAfter(window) == (window + 999) \div 1000

\* a limiter whose update keeps the entry of the calling key only
rateLimitClearOthers(store, clientIP, t, window, max) ==
    LET valid == validRequests(store, clientIP, t, window)
    IN  IF LimitExceeded(valid, max)
        THEN [next |-> FALSE, store |-> store]
        ELSE [next |-> TRUE, store |-> [k \in {clientIP} |-> Append(valid, t)]]

\* a limiter that also records the time of a call it rejects
rateLimitRecordRejected(store, clientIP, t, window, max) ==
    LET valid == validRequests(store, clientIP, t, window)
    IN  [next |-> ~LimitExceeded(valid, max),
         store |-> [k \in DOMAIN store \cup {clientIP} |->
                       IF k = clientIP THEN Append(valid, t) ELSE store[k]]]

\* a limiter whose update drops the timestamps stored before the call
rateLimitLostUpdate(store, clientIP, t, window, max) ==
    LET valid == validRequests(store, clientIP, t, window)
    IN  IF LimitExceeded(valid, max)
        THEN [next |-> FALSE, store |-> store]
        ELSE [next |-> TRUE,
              store |-> [k \in DOMAIN store \cup {clientIP} |->
                            IF k = clientIP THEN <<t>> ELSE store[k]]]

\* The middleware returned by rateLimit(options), called at time t:
\* whether it calls next(), and the store it leaves.
rateLimit(store, clientIP, t, window, max) ==
    LET valid == validRequests(store, clientIP, t, window)
    IN  IF LimitExceeded(valid, max)
        THEN [next |-> FALSE, store |-> store]
        ELSE [next |-> TRUE,
              store |-> [k \in DOMAIN store \cup {clientIP} |->
                            IF k = clientIP THEN Append(valid, t) ELSE store[k]]]

(***************************************************************************)
(* Query validator: middleware/validation.js                               *)
(***************************************************************************)
\* the keys of schemas.zipQuery
zipQueryKeys == {"zip"}

\* error.details of schemas.zipQuery.validate(data, {abortEarly: false, ...})
zipQueryDetails(data) ==
    IF ~Has(data, "zip")
    THEN <<[field |-> "zip", message |-> "ZIP code is required", value |-> ""]>>
    ELSE IF data.zip = ""
    THEN <<[field |-> "zip", message |-> "\"zip\" is not allowed to be empty",
            value |-> data.zip]>>
    ELSE IF ~IsZip(Spelling(data.zip))
    THEN <<[field |-> "zip", message |-> "ZIP code must be exactly 5 digits",
            value |-> data.zip]>>
    ELSE <<>>

\* value of schemas.zipQuery.validate(data, {stripUnknown: true, ...}):
\* the keys the schema does not declare are removed
zipQueryValue(data) == [k \in DOMAIN data \cap zipQueryKeys |-> data[k]]

(***************************************************************************)
(* A request in flight: the handler's local state and its response         *)
(***************************************************************************)
NoBody == [kind |-> "none"]
NoSql == [kind |-> "none"]
NoRow == [id |-> 0]

Idle ==
    [pc |-> "idle", client |-> "", path |-> Root, query |-> NoQuery,
     route |-> "", q |-> NoQuery, sql |-> NoSql, geography |-> NoRow,
     trace |-> <<>>, error |-> "none", status |-> 0, body |-> NoBody]

\* res.status(status).json(body)
Respond(r, status, body) ==
    [r EXCEPT !.pc = "done", !.status = status, !.body = body,
              !.sql = NoSql, !.trace = Append(@, "respond")]

\* await db.query(...): the handler is suspended until storage answers
Await(r, pc, sql, stage) ==
    [r EXCEPT !.pc = pc, !.sql = sql, !.trace = Append(@, stage)]

\* what pool.query may reject with: connection refused, authentication
\* failure, connection-acquisition timeout (connectionTimeoutMillis), and a
\* failure of the statement itself
ConnectionErrors == {"ECONNREFUSED", "28P01", "CONNECT_TIMEOUT"}
StorageErrors == ConnectionErrors \cup {"QUERY_FAILED"}

(***************************************************************************)
(* Router: routes/representatives.js                                       *)
(***************************************************************************)
\* router.get(...) in registration order
Routes == <<"/", "/:id", "/search">>

Matches(pattern, path) ==
    CASE pattern = "/" -> path = Root
      [] pattern = "/:id" -> path # Root
      [] pattern = "/search" -> path = SearchSegment

\* the first registered route whose pattern matches the path
RouteOf(path) ==
    LET i == CHOOSE n \in 1..Len(Routes) :
                 /\ Matches(Routes[n], path)
                 /\ \A j \in 1..(n - 1) : ~Matches(Routes[j], path)
    IN  Routes[i]

\* const { zip, include_inactive = 'false', branch } = req.query
include_inactive(q) == IF Has(q, "include_inactive") THEN q.include_inactive ELSE "false"
branchParam(q) == IF Has(q, "branch") THEN q.branch ELSE ""

\* a validator that answers 422 and goes on to the handler all the same
ZipLookupStartFallThrough(r) ==
    LET details == zipQueryDetails(r.query)
        v == [r EXCEPT !.trace = Append(@, "validate")]
        w == IF details # <<>>
             THEN [Respond(v, 422, [kind |-> "error", error |-> "Validation failed",
                                    details |-> details])
                      EXCEPT !.q = [zip |-> ""]]
             ELSE [v EXCEPT !.q = zipQueryValue(r.query)]
    IN  Await(w, "geo_query", [kind |-> "geo", zip |-> w.q.zip], "geoQuery")

\* createValidator('zipQuery', 'query'), then the handler up to its first await
ZipLookupStart(r) ==
    LET details == zipQueryDetails(r.query)
        v == [r EXCEPT !.trace = Append(@, "validate")]
    IN  IF details # <<>>
        THEN Respond(v, 422, [kind |-> "error", error |-> "Validation failed",
                              details |-> details])
        ELSE LET w == [v EXCEPT !.q = zipQueryValue(r.query)]
             IN  Await(w, "geo_query", [kind |-> "geo", zip |-> w.q.zip], "geoQuery")

\* GET /:id up to its first await
DetailStart(r) ==
    LET id == r.path
        n == parseInt(id)
    IN  IF id = <<>> \/ n.isNaN
        THEN Respond(r, 400, [kind |-> "error", error |-> "Invalid representative ID"])
        ELSE Await(r, "detail_query", [kind |-> "detail", id |-> n.value], "detailQuery")

\* !value: the parameter is absent or the empty string
EmptyParam(q, k) == ~Has(q, k) \/ q[k] = ""

\* parseInt(limit) with limit = 20 when absent, parseInt(offset) with offset = 0
limitParam(q) ==
    IF Has(q, "limit") THEN parseInt(Spelling(q.limit)) ELSE [isNaN |-> FALSE, value |-> 20]
offsetParam(q) ==
    IF Has(q, "offset") THEN parseInt(Spelling(q.offset)) ELSE [isNaN |-> FALSE, value |-> 0]

\* GET /search up to its first await
SearchStart(r) ==
    LET q == r.query
    IN  IF /\ EmptyParam(q, "name") /\ EmptyParam(q, "party")
           /\ branchParam(q) = "" /\ EmptyParam(q, "state")
        THEN Respond(r, 400, [kind |-> "error", error |-> "Search criteria required"])
        ELSE Await(r, "search_query",
                   [kind |-> "search",
                    name |-> IF EmptyParam(q, "name") THEN "" ELSE q.name,
                    party |-> IF EmptyParam(q, "party") THEN "" ELSE q.party,
                    branch |-> branchParam(q),
                    state |-> IF EmptyParam(q, "state") THEN <<>>
                              ELSE UpperStr(Spelling(q.state)),
                    limit |-> limitParam(q), offset |-> offsetParam(q)],
                   "searchQuery")

\* router.use(rateLimit(...)) and then the matching route, run to the first
\* await or to the response
Dispatch(r, passed, window) ==
    LET l == [r EXCEPT !.trace = Append(@, "rateLimit")]
    IN  IF ~passed
        THEN Respond(l, 429,
                     [kind |-> "error",
                      error |-> "Too many requests to representatives API, please try again later",
                      retryAfter |-> retryAfter(window)])
        ELSE LET m == [l EXCEPT !.route = RouteOf(r.path)]
             IN  CASE m.route = "/" -> ZipLookupStart(m)
                   [] m.route = "/:id" -> DetailStart(m)
                   [] m.route = "/search" -> SearchStart(m)

(***************************************************************************)
(* The queries of the ZIP lookup                                           *)
(***************************************************************************)
\* a lookup that also accepts the rows of nearby ZIP codes (same first digit)
geoRowsNearby(d, zip) ==
    {g \in d.geography : Spelling(g.zip_code)[1] = Spelling(zip)[1]}

\* SELECT ... FROM geography WHERE zip_code = $1
geoRows(d, zip) == {g \in d.geography : g.zip_code = zip}

\* The WHERE clause built by the handler; branch is "" when no clause was added
repQuery(geography, q) ==
    [kind |-> "rep",
     geography_id |-> geography.id,
     active_only |-> (include_inactive(q) # "true"),
     branch |-> branchParam(q)]

\* a join that leaves out WHERE rgm.geography_id = $1
JoinAnyGeography(m, r, geography_id) == r.id = m.representative_id

JoinMatches(m, r, geography_id) ==
    r.id = m.representative_id /\ m.geography_id = geography_id

\* FROM representatives r JOIN rep_geography_map rgm ON r.id = rgm.representative_id
\* WHERE rgm.geography_id = $1 [AND r.is_active = true] [AND r.branch = $2]
repRows(d, sql) ==
    { [id |-> r.id, name |-> r.name, party |-> r.party, branch |-> r.branch,
       is_active |-> r.is_active, jurisdiction_level |-> m.jurisdiction_level] :
        <<r, m>> \in { p \in d.representatives \X d.rep_geography_map :
                         /\ JoinMatches(p[2], p[1], sql.geography_id)
                         /\ (sql.active_only => p[1].is_active)
                         /\ (sql.branch # "" => p[1].branch = sql.branch) } }

\* ORDER BY r.branch: the branch names in alphabetical order
BranchRankAlphabetical(b) ==
    CASE b = "federal" -> 1
      [] b = "local" -> 2
      [] b = "state" -> 3

\* CASE r.branch WHEN 'federal' THEN 1 WHEN 'state' THEN 2 WHEN 'local' THEN 3 END
BranchRank(b) ==
    CASE b = "federal" -> 1
      [] b = "state" -> 2
      [] b = "local" -> 3

\* ORDER BY CASE r.branch ... END, r.name
RepOrderLeq(x, y) ==
    \/ BranchRank(x.branch) < BranchRank(y.branch)
    \/ /\ BranchRank(x.branch) = BranchRank(y.branch)
       /\ NameLeq[x.name, y.name]

\* every order in which storage may return the rows: rows with equal sort
\* keys come in any order
RECURSIVE RepOrderings(_)
RepOrderings(S) ==
    IF S = {} THEN {<<>>}
    ELSE UNION { { <<x>> \o t : t \in RepOrderings(S \ {x}) } :
                   x \in { m \in S : \A y \in S : RepOrderLeq(m, y) } }

\* repResult.rows.map(rep => ({...}))
formatRep(rep) ==
    [id |-> rep.id, name |-> rep.name, party |-> rep.party, branch |-> rep.branch,
     is_active |-> rep.is_active, jurisdiction_level |-> rep.jurisdiction_level]

GroupKeyLevel(rep) == rep.jurisdiction_level

\* rep.branch === 'federal' | 'state' | 'local'
GroupKey(rep) == rep.branch

\* representatives.filter(rep => rep.branch === b)
groupedReps(representatives, b) ==
    LET InGroup(rep) == GroupKey(rep) = b
    IN  SelectSeq(representatives, InGroup)

\* the response of the ZIP lookup
zipResponse(geography, q, rows) ==
    LET representatives == [i \in 1..Len(rows) |-> formatRep(rows[i])]
    IN  [kind |-> "representatives",
         zip |-> geography.zip_code,
         count |-> Len(representatives),
         by_branch |-> [federal |-> groupedReps(representatives, "federal"),
                        state |-> groupedReps(representatives, "state"),
                        local |-> groupedReps(representatives, "local")],
         all |-> representatives,
         include_inactive |-> (include_inactive(q) = "true"),
         branch_filter |-> IF branchParam(q) # "" THEN branchParam(q) ELSE "all"]

\* the catch block of a handler
catchStatus(error) == 500

Caught(r, error, message) ==
    Respond([r EXCEPT !.error = error], catchStatus(error),
            [kind |-> "error", error |-> "Internal server error", message |-> message])

(***************************************************************************)
(* The query of the detail lookup                                          *)
(***************************************************************************)
\* FROM representatives r LEFT JOIN rep_geography_map rgm ... LEFT JOIN geography g
\* WHERE r.id = $1 GROUP BY r.id: served_areas of the row, a NULL area
\* (zip_code "" here) when r has no mapping
servedAreas(d, r) ==
    LET areas == { g.zip_code : g \in { h \in d.geography :
                       \E m \in d.rep_geography_map :
                           m.representative_id = r.id /\ m.geography_id = h.id } }
    IN  IF areas = {} THEN {""} ELSE areas

detailRows(d, id) ==
    { [id |-> r.id, name |-> r.name, party |-> r.party, branch |-> r.branch,
       is_active |-> r.is_active, served_areas |-> servedAreas(d, r)] :
        r \in { x \in d.representatives : x.id = id } }

\* the response of the detail lookup
detailResponse(rep) ==
    [kind |-> "representative", id |-> rep.id, name |-> rep.name, party |-> rep.party,
     branch |-> rep.branch, is_active |-> rep.is_active,
     served_areas |-> { a \in rep.served_areas : a # "" }]

(***************************************************************************)
(* The query of the search                                                 *)
(***************************************************************************)
\* FROM representatives r LEFT JOIN rep_geography_map rgm ... LEFT JOIN geography g:
\* one row for each mapping of r, one row with a NULL geography (id 0,
\* state "") when r has none
searchJoin(d) ==
    { [rep |-> r, geography_id |-> g.id, state |-> g.state] :
        <<r, g>> \in { p \in d.representatives \X d.geography :
                         \E m \in d.rep_geography_map :
                             /\ m.representative_id = p[1].id
                             /\ m.geography_id = p[2].id } }
    \cup
    { [rep |-> r, geography_id |-> 0, state |-> ""] :
        r \in { x \in d.representatives :
                  ~\E m \in d.rep_geography_map : m.representative_id = x.id } }

\* WHERE r.is_active = true [AND r.name ILIKE $n] [AND r.party ILIKE $n]
\*       [AND r.branch = $n] [AND g.state = $n]
searchWhere(row, sql) ==
    /\ row.rep.is_active
    /\ (sql.name # "" => ILike(Spelling(row.rep.name), Spelling(sql.name)))
    /\ (sql.party # "" => ILike(Spelling(row.rep.party), Spelling(sql.party)))
    /\ (sql.branch # "" => row.rep.branch = sql.branch)
    /\ (sql.state # <<>> => (row.state # "" /\ Spelling(row.state) = sql.state))

\* the joined rows that pass WHERE; COUNT(*) OVER() counts them
searchMatches(d, sql) == { row \in searchJoin(d) : searchWhere(row, sql) }

\* the same SELECT without DISTINCT: one row for each joined row
searchAllRows(d, sql) ==
    LET matches == searchMatches(d, sql)
    IN  { [id |-> row.rep.id, name |-> row.rep.name, party |-> row.rep.party,
           branch |-> row.rep.branch, is_active |-> row.rep.is_active,
           total_count |-> Cardinality(matches),
           geography_id |-> row.geography_id] : row \in matches }

\* SELECT DISTINCT r.id, ..., COUNT(*) OVER() as total_count
searchDistinct(d, sql) ==
    LET matches == searchMatches(d, sql)
    IN  { [id |-> row.rep.id, name |-> row.rep.name, party |-> row.rep.party,
           branch |-> row.rep.branch, is_active |-> row.rep.is_active,
           total_count |-> Cardinality(matches)] : row \in matches }

\* ORDER BY r.name: rows with equal names come in any order
RECURSIVE NameOrderings(_)
NameOrderings(S) ==
    IF S = {} THEN {<<>>}
    ELSE UNION { { <<x>> \o t : t \in NameOrderings(S \ {x}) } :
                   x \in { m \in S : \A y \in S : NameLeq[m.name, y.name] } }

\* LIMIT $n OFFSET $m
Page(rows, limit, offset) ==
    SubSeq(rows, offset + 1,
           IF offset + limit < Len(rows) THEN offset + limit ELSE Len(rows))

\* a response whose has_more says whether rows exist beyond the page
searchResponseExact(rows, q) ==
    [kind |-> "search",
     results |-> [i \in 1..Len(rows) |->
                    [id |-> rows[i].id, name |-> rows[i].name, party |-> rows[i].party,
                     branch |-> rows[i].branch, is_active |-> rows[i].is_active]],
     total |-> IF Len(rows) > 0 THEN rows[1].total_count ELSE 0,
     limit |-> limitParam(q).value,
     offset |-> offsetParam(q).value,
     has_more |-> (Len(rows) > 0 /\
                     offsetParam(q).value + Len(rows) < rows[1].total_count)]

\* the response of the search
searchResponse(rows, q) ==
    [kind |-> "search",
     results |-> [i \in 1..Len(rows) |->
                    [id |-> rows[i].id, name |-> rows[i].name, party |-> rows[i].party,
                     branch |-> rows[i].branch, is_active |-> rows[i].is_active]],
     total |-> IF Len(rows) > 0 THEN rows[1].total_count ELSE 0,
     limit |-> limitParam(q).value,
     offset |-> offsetParam(q).value,
     has_more |-> (Len(rows) = limitParam(q).value)]

(***************************************************************************)
(* Actions                                                                 *)
(***************************************************************************)
Slots == DOMAIN reqs

\* a router whose limiter gives the slot back when the request is answered
\* at once with an error
ReceiveRefund(s, c, path, query) ==
    /\ reqs[s].pc \in {"idle", "done"}
    /\ Len(calls) < MaxCalls
    /\ LET lim == rateLimit(rateLimitStore, c, now, windowMs, maxRequests)
           r == [Idle EXCEPT !.client = c, !.path = path, !.query = query,
                             !.q = query]
           d == Dispatch(r, lim.next, windowMs)
       IN  /\ rateLimitStore' = IF d.status >= 400 THEN rateLimitStore ELSE lim.store
           /\ calls' = Append(calls, [client |-> c, at |-> now, accepted |-> lim.next])
           /\ reqs' = [reqs EXCEPT ![s] = d]
    /\ UNCHANGED <<transactions, committed, db, windowMs, maxRequests, now>>

\* A request arrives: the rate limiter, the route's middleware and the
\* handler run without interruption up to the response or the first await.
Receive(s, c, path, query) ==
    /\ reqs[s].pc \in {"idle", "done"}
    /\ Len(calls) < MaxCalls
    /\ LET lim == rateLimit(rateLimitStore, c, now, windowMs, maxRequests)
           r == [Idle EXCEPT !.client = c, !.path = path, !.query = query,
                             !.q = query]
       IN  /\ rateLimitStore' = lim.store
           /\ calls' = Append(calls, [client |-> c, at |-> now, accepted |-> lim.next])
           /\ reqs' = [reqs EXCEPT ![s] = Dispatch(r, lim.next, windowMs)]
    /\ UNCHANGED <<transactions, committed, db, windowMs, maxRequests, now>>

\* Time passes.
Tick ==
    /\ now < MaxClock
    /\ now' = now + 1
    /\ UNCHANGED <<transactions, committed, db, windowMs, maxRequests, rateLimitStore, reqs, calls>>

\* Storage answers the geography query of the ZIP lookup.
GeoQueryDone(s, outcome) ==
    /\ reqs[s].pc = "geo_query"
    /\ LET r == reqs[s]
           rows == geoRows(db, r.sql.zip)
       IN  reqs' = [reqs EXCEPT ![s] =
             IF outcome # "ok"
             THEN Caught(r, outcome, "Unable to fetch representatives data")
             ELSE IF rows = {}
             THEN Respond(r, 404, [kind |-> "error", error |-> "ZIP code not found",
                                   suggestion |-> "Please verify the ZIP code or try a nearby area"])
             ELSE LET geography == CHOOSE g \in rows : TRUE
                  IN  Await([r EXCEPT !.geography = geography], "rep_query",
                            repQuery(geography, r.q), "repQuery")]
    /\ UNCHANGED <<transactions, committed, db, windowMs, maxRequests, rateLimitStore, now, calls>>

\* Storage answers the representatives query of the ZIP lookup.
RepQueryDone(s, outcome) ==
    /\ reqs[s].pc = "rep_query"
    /\ LET r == reqs[s]
       IN  IF outcome # "ok"
           THEN reqs' = [reqs EXCEPT ![s] =
                           Caught(r, outcome, "Unable to fetch representatives data")]
           ELSE \E rows \in RepOrderings(repRows(db, r.sql)) :
                   reqs' = [reqs EXCEPT ![s] =
                              Respond(r, 200, zipResponse(r.geography, r.q, rows))]
    /\ UNCHANGED <<transactions, committed, db, windowMs, maxRequests, rateLimitStore, now, calls>>

\* Storage answers the query of the detail lookup.
DetailQueryDone(s, outcome) ==
    /\ reqs[s].pc = "detail_query"
    /\ LET r == reqs[s]
           rows == detailRows(db, r.sql.id)
       IN  reqs' = [reqs EXCEPT ![s] =
             IF outcome # "ok"
             THEN Caught(r, outcome, "Unable to fetch representative details")
             ELSE IF rows = {}
             THEN Respond(r, 404, [kind |-> "error", error |-> "Representative not found"])
             ELSE Respond(r, 200, detailResponse(CHOOSE x \in rows : TRUE))]
    /\ UNCHANGED <<transactions, committed, db, windowMs, maxRequests, rateLimitStore, now, calls>>

\* Storage answers the query of the search; a limit or offset that is NaN
\* makes the statement fail.
SearchQueryDone(s, outcome) ==
    /\ reqs[s].pc = "search_query"
    /\ LET r == reqs[s]
       IN  IF outcome # "ok"
           THEN reqs' = [reqs EXCEPT ![s] = Caught(r, outcome, "Unable to perform search")]
           ELSE IF r.sql.limit.isNaN \/ r.sql.offset.isNaN
           THEN reqs' = [reqs EXCEPT ![s] =
                           Caught(r, "QUERY_FAILED", "Unable to perform search")]
           ELSE \E rows \in NameOrderings(searchDistinct(db, r.sql)) :
                   reqs' = [reqs EXCEPT ![s] =
                              Respond(r, 200,
                                      searchResponse(Page(rows, r.sql.limit.value,
                                                          r.sql.offset.value), r.query))]
    /\ UNCHANGED <<transactions, committed, db, windowMs, maxRequests, rateLimitStore, now, calls>>

(***************************************************************************)
(* Transaction wrapper: models/database.js                                 *)
(***************************************************************************)
\* the callers of transaction(callback)
Callers == {1, 2}

\* One call of transaction(callback): where it is suspended, the number of
\* statements its callback runs and how many have succeeded, the statements
\* issued on its client, the error caught by the catch block, and how the
\* call ended (returned, or the error thrown to the caller).
NoTransaction ==
    [pc |-> "idle", steps |-> 0, stepsDone |-> 0, log |-> <<>>, acquired |-> FALSE,
     released |-> 0, error |-> "none", returned |-> FALSE, thrown |-> "none"]

NoTransactions == [t \in Callers |-> NoTransaction]

\* a statement of a transaction either succeeds or is rejected
QueryOutcomes == {"ok", "error"}

\* client.query(text)
Issue(x, text) == [x EXCEPT !.log = Append(@, text)]

\* catch (error) { await client.query('ROLLBACK'); ... }
Catch(x, error) == Issue([x EXCEPT !.pc = "rollback", !.error = error], "ROLLBACK")

\* a wrapper that releases the client after COMMIT only
FinallyOnSuccess(x) ==
    [x EXCEPT !.pc = "done", !.released = IF x.returned THEN @ + 1 ELSE @]

\* finally { client.release() }, then the promise of the call settles
Finally(x) == [x EXCEPT !.pc = "done", !.released = @ + 1]

\* the rows written by the statements of caller t's callback
Work(t, x) == { [caller |-> t, step |-> i] : i \in 1..x.stepsDone }

\* transaction(callback) is called: pool.connect() is awaited.
TransactionCall(t, n) ==
    /\ transactions[t].pc = "idle"
    /\ transactions' = [transactions EXCEPT ![t] =
                          [NoTransaction EXCEPT !.pc = "connect", !.steps = n]]
    /\ UNCHANGED <<committed, db, windowMs, maxRequests, rateLimitStore, now, reqs, calls>>

\* pool.connect() settles: a rejection is outside the try block and is thrown
\* to the caller; otherwise BEGIN is issued.
ConnectDone(t, outcome) ==
    /\ transactions[t].pc = "connect"
    /\ LET x == transactions[t]
       IN  transactions' = [transactions EXCEPT ![t] =
             IF outcome # "ok"
             THEN [x EXCEPT !.pc = "done", !.thrown = "connect"]
             ELSE Issue([x EXCEPT !.pc = "begin", !.acquired = TRUE], "BEGIN")]
    /\ UNCHANGED <<committed, db, windowMs, maxRequests, rateLimitStore, now, reqs, calls>>

\* the callback has run all its statements: COMMIT is issued
CallbackReturned(x) ==
    IF x.stepsDone = x.steps THEN Issue([x EXCEPT !.pc = "commit"], "COMMIT")
    ELSE Issue([x EXCEPT !.pc = "callback"], "statement")

\* BEGIN settles.
BeginDone(t, outcome) ==
    /\ transactions[t].pc = "begin"
    /\ LET x == transactions[t]
       IN  transactions' = [transactions EXCEPT ![t] =
             IF outcome # "ok" THEN Catch(x, "BEGIN") ELSE CallbackReturned(x)]
    /\ UNCHANGED <<committed, db, windowMs, maxRequests, rateLimitStore, now, reqs, calls>>

\* A statement of the callback settles; the callback lets a rejection through.
StepDone(t, outcome) ==
    /\ transactions[t].pc = "callback"
    /\ LET x == transactions[t]
       IN  transactions' = [transactions EXCEPT ![t] =
             IF outcome # "ok" THEN Catch(x, "callback")
             ELSE CallbackReturned([x EXCEPT !.stepsDone = @ + 1])]
    /\ UNCHANGED <<committed, db, windowMs, maxRequests, rateLimitStore, now, reqs, calls>>

\* COMMIT settles: on success storage makes the work durable and the result
\* of the callback is returned.
CommitDone(t, outcome) ==
    /\ transactions[t].pc = "commit"
    /\ LET x == transactions[t]
       IN  IF outcome # "ok"
           THEN /\ transactions' = [transactions EXCEPT ![t] = Catch(x, "COMMIT")]
                /\ UNCHANGED committed
           ELSE /\ transactions' = [transactions EXCEPT ![t] =
                                      Finally([x EXCEPT !.returned = TRUE])]
                /\ committed' = committed \cup Work(t, x)
    /\ UNCHANGED <<db, windowMs, maxRequests, rateLimitStore, now, reqs, calls>>

\* ROLLBACK settles: on success the caught error is thrown again; a rejected
\* ROLLBACK leaves the catch block with its own error.
RollbackDone(t, outcome) ==
    /\ transactions[t].pc = "rollback"
    /\ LET x == transactions[t]
       IN  transactions' = [transactions EXCEPT ![t] =
             Finally([x EXCEPT !.thrown = IF outcome = "ok" THEN x.error ELSE "ROLLBACK"])]
    /\ UNCHANGED <<committed, db, windowMs, maxRequests, rateLimitStore, now, reqs, calls>>

(***************************************************************************)
(* Inputs                                                                  *)
(***************************************************************************)
\* a well-formed ZIP with every combination of the optional parameters; a
\* missing or malformed one alone and with both optional parameters
ZipQueries ==
    { z @@ i @@ b :
        z \in Param("zip", {"11354", "20301", "99999"}) \ {NoQuery},
        i \in Param("include_inactive", {"true"}),
        b \in Param("branch", Branches) }
    \cup
    { z @@ o :
        z \in Param("zip", {"1135"}),
        o \in {NoQuery, ("include_inactive" :> "true") @@ ("branch" :> "federal")} }
    \cup
    { "zip" :> z : z \in {"", "113541", "1135a"} }

IdChars == {"1", "5", "a"}

IdSegments == UNION { [1..n -> IdChars] : n \in 1..MaxIdLen }

SearchQueries ==
    { n @@ l :
        n \in Param("name", {"schumer"}),
        l \in {NoQuery, ("limit" :> "5") @@ ("offset" :> "1")} }

\* GET requests to the router: <<path, query string>>
Requests ==
    ({Root} \X ZipQueries)
        \cup (IdSegments \X {NoQuery})
        \cup ({SearchSegment} \X SearchQueries)

(***************************************************************************)
(* Specification: one request at a time against any of the databases       *)
(***************************************************************************)
Init ==
    /\ db \in {d \in Databases : SchemaOk(d)}
    /\ windowMs = 1
    /\ maxRequests = 1
    /\ rateLimitStore = [k \in {} |-> <<>>]
    /\ now = 0
    /\ reqs = [s \in {1} |-> Idle]
    /\ calls = <<>>
    /\ transactions = NoTransactions
    /\ committed = {}

Outcomes == {"ok"} \cup StorageErrors

Next ==
    \/ \E s \in Slots, rq \in Requests : Receive(s, "ip1", rq[1], rq[2])
    \/ \E s \in Slots, o \in Outcomes : GeoQueryDone(s, o)
    \/ \E s \in Slots, o \in Outcomes : RepQueryDone(s, o)
    \/ \E s \in Slots, o \in Outcomes : DetailQueryDone(s, o)

Spec == Init /\ [][Next]_vars

(***************************************************************************)
(* Specification of the limiter: concurrent requests of several clients    *)
(* over time, any limiter options, against the sample database             *)
(***************************************************************************)
\* rateLimit(options)
LimiterOptions == {[windowMs |-> w, maxRequests |-> m] : w \in {1, 2}, m \in {1, 2}}

InitLimiter ==
    /\ db = SampleDb
    /\ \E o \in LimiterOptions :
          windowMs = o.windowMs /\ maxRequests = o.maxRequests
    /\ rateLimitStore = [k \in {} |-> <<>>]
    /\ now = 0
    /\ reqs = [s \in {1, 2} |-> Idle]
    /\ calls = <<>>
    /\ transactions = NoTransactions
    /\ committed = {}

\* a request that is answered after two awaits and one answered at once
LimiterRequests == { <<Root, "zip" :> "11354">>, <<<<"a">>, NoQuery>> }

NextLimiter ==
    \/ \E s \in Slots, c \in Clients, rq \in LimiterRequests : Receive(s, c, rq[1], rq[2])
    \/ Tick
    \/ \E s \in Slots : GeoQueryDone(s, "ok")
    \/ \E s \in Slots : RepQueryDone(s, "ok")

SpecLimiter == InitLimiter /\ [][NextLimiter]_vars

(***************************************************************************)
(* Specification of the budget: the requests of one client over time, two  *)
(* in flight, with every way a request can end                             *)
(***************************************************************************)
\* requests that end with 200, 404, 422 and 400 when storage answers
BudgetRequests ==
    { <<Root, "zip" :> "11354">>, <<Root, "zip" :> "99999">>,
      <<Root, "zip" :> "1135">>, <<<<"a">>, NoQuery>> }

\* storage answers or the statement fails
BudgetOutcomes == {"ok", "QUERY_FAILED"}

NextBudget ==
    \/ \E s \in Slots, rq \in BudgetRequests : Receive(s, "ip1", rq[1], rq[2])
    \/ Tick
    \/ \E s \in Slots, o \in BudgetOutcomes : GeoQueryDone(s, o)
    \/ \E s \in Slots, o \in BudgetOutcomes : RepQueryDone(s, o)

SpecBudget == InitLimiter /\ [][NextBudget]_vars

(***************************************************************************)
(* Specification of the search: the handler of GET /search is called with  *)
(* a query string, against databases in which one representative may be    *)
(* mapped to two geographies of one state                                  *)
(***************************************************************************)
\* a second geography of the state NY (the next SERIAL id)
SecondNYGeography ==
    [id |-> Cardinality(SampleGeography) + 1, zip_code |-> "10001", state |-> "NY"]

TwoAreaDatabases ==
    { [geography |-> SampleGeography \cup {SecondNYGeography},
       representatives |-> SampleRepresentatives \cup {r},
       rep_geography_map |-> SampleMap \cup
           { [representative_id |-> ExtraId, geography_id |-> g,
              jurisdiction_level |-> r.branch] : g \in {1, SecondNYGeography.id} }] :
        r \in ExtraRepresentatives }

SearchDatabases == {d \in Databases \cup TwoAreaDatabases : SchemaOk(d)}

\* the query strings of GET /search: any of the criteria, with and without
\* limit and offset
SearchInputs ==
    { n @@ p @@ b @@ st @@ l @@ o :
        n \in Param("name", {"schumer"}),
        p \in Param("party", {"dem"}),
        b \in Param("branch", {"federal"}),
        st \in Param("state", {"ny"}),
        l \in Param("limit", {"1", "5", "a"}),
        o \in Param("offset", {"1", "5"}) }

\* The handler registered by router.get('/search', ...) is called with a
\* request and runs to the response or to its await; one call in a behaviour.
SearchRequest(s, c, query) ==
    /\ reqs[s].pc = "idle"
    /\ reqs' = [reqs EXCEPT ![s] =
                  SearchStart([Idle EXCEPT !.client = c, !.path = SearchSegment,
                                           !.query = query, !.q = query,
                                           !.route = "/search"])]
    /\ UNCHANGED <<transactions, committed, db, windowMs, maxRequests, rateLimitStore, now, calls>>

InitSearch ==
    /\ db \in SearchDatabases
    /\ windowMs = 1
    /\ maxRequests = 1
    /\ rateLimitStore = [k \in {} |-> <<>>]
    /\ now = 0
    /\ reqs = [s \in {1} |-> Idle]
    /\ calls = <<>>
    /\ transactions = NoTransactions
    /\ committed = {}

NextSearch ==
    \/ \E s \in Slots, q \in SearchInputs : SearchRequest(s, "ip1", q)
    \/ \E s \in Slots, o \in Outcomes : SearchQueryDone(s, o)

SpecSearch == InitSearch /\ [][NextSearch]_vars

(***************************************************************************)
(* Specification of the transaction wrapper: two callers, each with a      *)
(* callback of up to MaxSteps statements                                   *)
(***************************************************************************)
InitTransaction ==
    /\ db = SampleDb
    /\ windowMs = 1
    /\ maxRequests = 1
    /\ rateLimitStore = [k \in {} |-> <<>>]
    /\ now = 0
    /\ reqs = [s \in {1} |-> Idle]
    /\ calls = <<>>
    /\ transactions = NoTransactions
    /\ committed = {}

NextTransaction ==
    \/ \E t \in Callers, n \in 0..MaxSteps : TransactionCall(t, n)
    \/ \E t \in Callers, o \in QueryOutcomes : ConnectDone(t, o)
    \/ \E t \in Callers, o \in QueryOutcomes : BeginDone(t, o)
    \/ \E t \in Callers, o \in QueryOutcomes : StepDone(t, o)
    \/ \E t \in Callers, o \in QueryOutcomes : CommitDone(t, o)
    \/ \E t \in Callers, o \in QueryOutcomes : RollbackDone(t, o)

SpecTransaction == InitTransaction /\ [][NextTransaction]_vars

(***************************************************************************)
(* Properties                                                              *)
(***************************************************************************)
Done(r) == r.pc = "done"

Issued(r, stage) == \E i \in 1..Len(r.trace) : r.trace[i] = stage

\* the accepted calls of client k that lie inside the window ending at t
AcceptedInWindow(k, t) ==
    { i \in 1..Len(calls) :
        calls[i].client = k /\ calls[i].accepted /\ calls[i].at > t - windowMs }

\* C1: a call of a client key with fewer than maxRequests accepted calls inside
\* the window is accepted; a call that finds maxRequests accepted calls of its
\* key inside the window is rejected with status 429 and retryAfter; and a
\* call made after the window has passed since every accepted call of its key
\* is accepted again.
C1_RateLimitWindow ==
    [][ Len(calls') = Len(calls) + 1 =>
          LET e == calls'[Len(calls')]
              n == Cardinality(AcceptedInWindow(e.client, now))
              Answered(with429) ==
                  \E s \in DOMAIN reqs :
                      /\ reqs'[s].client = e.client
                      /\ (reqs'[s].status = 429) = with429
                      /\ with429 => /\ Done(reqs'[s])
                                    /\ reqs'[s].body.retryAfter = retryAfter(windowMs)
          IN  /\ e.at = now
              /\ n < maxRequests => e.accepted /\ Answered(FALSE)
              /\ n >= maxRequests => ~e.accepted /\ Answered(TRUE)
              /\ (\A i \in 1..Len(calls) :
                     (calls[i].client = e.client /\ calls[i].accepted)
                         => calls[i].at + windowMs < now)
                    => e.accepted /\ Answered(FALSE) ]_vars

\* two calls of one key are accepted, the third in the same window is
\* rejected, and a fourth after the window is accepted
C1_Witness ==
    /\ maxRequests = 2
    /\ Len(calls) = 4
    /\ \A i \in 1..4 : calls[i].client = "ip1"
    /\ calls[1].accepted /\ calls[2].accepted /\ ~calls[3].accepted /\ calls[4].accepted
    /\ calls[3].at < calls[1].at + windowMs
    /\ calls[4].at > calls[2].at + windowMs

\* a finished ZIP lookup that was answered with the representatives
ZipAnswered(r) == Done(r) /\ r.route = "/" /\ r.status = 200

Ids(reps) == { reps[i].id : i \in 1..Len(reps) }

\* the rows of representatives that the mapping table links to the geography
\* of this ZIP
MappedTo(zip) ==
    { x \in db.representatives :
        \E m \in db.rep_geography_map, g \in db.geography :
            /\ g.zip_code = zip
            /\ m.geography_id = g.id
            /\ m.representative_id = x.id }

\* ... of the branch the request asks for, if it asks for one
Wanted(r) ==
    { x \in MappedTo(r.query.zip) :
        Has(r.query, "branch") => x.branch = r.query.branch }

\* C2: a ZIP lookup without include_inactive returns no inactive
\* representative; with include_inactive=true it returns every inactive
\* representative mapped to the geography, and all that the default returns.
C2_IncludeInactive ==
    \A s \in DOMAIN reqs :
        ZipAnswered(reqs[s]) =>
            LET r == reqs[s]
                all == r.body.all
            IN  /\ ~Has(r.query, "include_inactive") =>
                      \A i \in 1..Len(all) : all[i].is_active
                /\ (Has(r.query, "include_inactive") /\ r.query.include_inactive = "true") =>
                      /\ { x.id : x \in { y \in Wanted(r) : ~y.is_active } } \subseteq Ids(all)
                      /\ { x.id : x \in { y \in Wanted(r) : y.is_active } } \subseteq Ids(all)

\* C3: a ZIP lookup with branch=b returns only representatives of branch b,
\* and the buckets of the other two branches are empty.
C3_BranchFilter ==
    \A s \in DOMAIN reqs :
        (ZipAnswered(reqs[s]) /\ Has(reqs[s].query, "branch")) =>
            LET r == reqs[s]
                b == r.query.branch
            IN  /\ \A i \in 1..Len(r.body.all) : r.body.all[i].branch = b
                /\ \A o \in Branches \ {b} : r.body.by_branch[o] = <<>>

NoCriteria(q) == \A k \in {"name", "party", "branch", "state"} : ~Has(q, k) \/ q[k] = ""

\* C4: a search request without name, party, branch and state is rejected
\* with 400 'Search criteria required' whatever its limit and offset, and no
\* storage query is issued for it.
C4_SearchNeedsCriteria ==
    \A s \in DOMAIN reqs :
        LET r == reqs[s]
        IN  (r.path = SearchSegment /\ NoCriteria(r.query) /\ r.pc # "idle") =>
                /\ ~Issued(r, "searchQuery") /\ ~Issued(r, "detailQuery")
                /\ (Done(r) /\ r.status # 429) =>
                      /\ r.status = 400
                      /\ r.body.error = "Search criteria required"

\* C5: a search request with name=x is answered by the search with active
\* representatives whose name contains x, compared without regard to case;
\* without limit and offset, with all of them.
C5_SearchByName ==
    \A s \in DOMAIN reqs :
        LET r == reqs[s]
            Matching == { x \in db.representatives :
                            /\ x.is_active
                            /\ Contains(LowerStr(Spelling(x.name)),
                                        LowerStr(Spelling(r.query.name))) }
        IN  (/\ r.path = SearchSegment /\ Has(r.query, "name") /\ r.query.name # ""
             /\ Done(r) /\ r.status # 429 /\ r.error = "none") =>
                /\ r.status = 200
                /\ r.body.kind = "search"
                /\ Ids(r.body.results) \subseteq { x.id : x \in Matching }
                /\ ~Has(r.query, "limit") => Ids(r.body.results) = { x.id : x \in Matching }

\* a ZIP lookup of a well-formed ZIP that storage has no geography row for
UnknownZip(r) ==
    /\ r.route = "/"
    /\ Has(r.query, "zip")
    /\ IsZip(Spelling(r.query.zip))
    /\ ~\E g \in db.geography : g.zip_code = r.query.zip

\* C6: a ZIP lookup of a well-formed ZIP without geography row never issues
\* the representatives query and is never answered 200; when storage answers
\* its geography query, the response is 404 with the suggestion.
C6_UnknownZipNotFound ==
    \A s \in DOMAIN reqs :
        LET r == reqs[s]
        IN  UnknownZip(r) =>
                /\ r.pc # "rep_query"
                /\ ~Issued(r, "repQuery")
                /\ r.status # 200
                /\ (Done(r) /\ r.error = "none") =>
                      /\ r.status = 404
                      /\ r.body.error = "ZIP code not found"
                      /\ r.body.suggestion = "Please verify the ZIP code or try a nearby area"

C6_Witness ==
    \E s \in DOMAIN reqs :
        /\ UnknownZip(reqs[s])
        /\ Done(reqs[s])
        /\ reqs[s].status = 404
        /\ reqs[s].trace = <<"rateLimit", "validate", "geoQuery", "respond">>

\* the id is written with decimal digits only
Numeric(id) == id # <<>> /\ \A i \in 1..Len(id) : IsDigit(id[i])

RECURSIVE NumberOf(_)
NumberOf(id) ==
    IF id = <<>> THEN 0
    ELSE NumberOf(SubSeq(id, 1, Len(id) - 1)) * 10 + DigitValue(id[Len(id)])

\* C7: a detail lookup of a numeric id without representative row is answered
\* 404; a detail lookup of an id that is not a number is answered 400 and
\* issues no storage query.
C7_DetailIdChecked ==
    \A s \in DOMAIN reqs :
        LET r == reqs[s]
        IN  r.route = "/:id" =>
                /\ ~Numeric(r.path) =>
                      /\ ~Issued(r, "detailQuery")
                      /\ Done(r) => r.status = 400
                /\ (/\ Numeric(r.path) /\ Done(r) /\ r.error = "none"
                    /\ ~\E x \in db.representatives : x.id = NumberOf(r.path)) =>
                      r.status = 404

\* C8: every representative a ZIP lookup returns has a mapping row to the
\* geography of that ZIP, and is returned once.
C8_OnlyMappedOnce ==
    \A s \in DOMAIN reqs :
        ZipAnswered(reqs[s]) =>
            LET r == reqs[s]
                all == r.body.all
            IN  /\ \A i \in 1..Len(all) :
                      \E m \in db.rep_geography_map, g \in db.geography :
                          /\ g.zip_code = r.query.zip
                          /\ m.geography_id = g.id
                          /\ m.representative_id = all[i].id
                /\ \A i, j \in 1..Len(all) : all[i].id = all[j].id => i = j
                /\ r.body.count = Len(all)

\* the database holds a representative mapped to another geography only, and
\* the lookup returned those of its own geography
C8_Witness ==
    \E s \in DOMAIN reqs :
        /\ ZipAnswered(reqs[s])
        /\ Len(reqs[s].body.all) >= 4
        /\ \E x \in db.representatives :
              /\ x.is_active
              /\ x \notin MappedTo(reqs[s].query.zip)
              /\ \E m \in db.rep_geography_map : m.representative_id = x.id

BranchOrder == <<"federal", "state", "local">>

Position(b) == CHOOSE i \in 1..Len(BranchOrder) : BranchOrder[i] = b

\* federal before state before local, and names non-decreasing within a branch
Ordered(reps) ==
    \A i, j \in 1..Len(reps) :
        i < j =>
            /\ Position(reps[i].branch) <= Position(reps[j].branch)
            /\ reps[i].branch = reps[j].branch =>
                  StrLeq(Spelling(reps[i].name), Spelling(reps[j].name))

\* t holds elements of s in the order they have in s
RECURSIVE IsSubsequence(_, _)
IsSubsequence(t, s) ==
    IF t = <<>> THEN TRUE
    ELSE IF s = <<>> THEN FALSE
    ELSE IF Head(t) = Head(s) THEN IsSubsequence(Tail(t), Tail(s))
    ELSE IsSubsequence(t, Tail(s))

\* C9: in the list of a ZIP lookup the federal representatives precede the
\* state ones, which precede the local ones, names are non-decreasing within
\* a branch, and each bucket keeps the order of the list.
C9_Ordering ==
    \A s \in DOMAIN reqs :
        ZipAnswered(reqs[s]) =>
            LET body == reqs[s].body
            IN  /\ Ordered(body.all)
                /\ \A b \in Branches :
                      /\ Ordered(body.by_branch[b])
                      /\ IsSubsequence(body.by_branch[b], body.all)

\* a list with two branches out of alphabetical order of the branch names,
\* and two names of one branch
C9_Witness ==
    \E s \in DOMAIN reqs :
        /\ ZipAnswered(reqs[s])
        /\ LET all == reqs[s].body.all
           IN  /\ \E i, j \in 1..Len(all) : all[i].branch = "state" /\ all[j].branch = "local"
               /\ \E i, j \in 1..Len(all) :
                     i # j /\ all[i].branch = all[j].branch /\ all[i].name # all[j].name

\* C10: a storage failure during a representatives request is answered 503 if
\* it is a connection failure, and 500 otherwise.
C10_StorageErrorStatus ==
    \A s \in DOMAIN reqs :
        LET r == reqs[s]
        IN  (Done(r) /\ r.error # "none") =>
                r.status = IF r.error \in ConnectionErrors THEN 503 ELSE 500

\* the zip parameter of a ZIP lookup is missing or is not 5 ASCII digits
BadZip(q) ==
    \/ ~Has(q, "zip")
    \/ LET z == Spelling(q.zip)
       IN  Len(z) # 5 \/ \E i \in 1..Len(z) : ~IsDigit(z[i])

\* C11: a ZIP lookup whose zip is missing or is not exactly 5 ASCII digits is
\* answered 422 with one details entry for its violation, naming the field zip
\* and the offending value, and neither storage query is issued for it.
C11_BadZipRejected ==
    \A s \in DOMAIN reqs :
        LET r == reqs[s]
        IN  (r.route = "/" /\ BadZip(r.query)) =>
                /\ Done(r)
                /\ r.status = 422
                /\ Len(r.body.details) = 1
                /\ r.body.details[1].field = "zip"
                /\ Has(r.query, "zip") => r.body.details[1].value = r.query.zip
                /\ ~Issued(r, "geoQuery")
                /\ ~Issued(r, "repQuery")
                /\ r.sql = NoSql

\* a zip of four digits was rejected with its value in the details
C11_Witness ==
    \E s \in DOMAIN reqs :
        LET r == reqs[s]
        IN  /\ r.route = "/"
            /\ Has(r.query, "zip") /\ r.query.zip = "1135"
            /\ r.status = 422
            /\ r.body.details[1].value = "1135"

\* the elements of a sequence
Range(seq) == { seq[i] : i \in 1..Len(seq) }

\* C12: in every 200 response of the ZIP lookup each bucket of by_branch
\* holds representatives whose branch field is the bucket's key, whatever
\* their jurisdiction_level; the buckets are pairwise disjoint and together
\* hold exactly the representatives of all, so that
\* count = |all| = |federal| + |state| + |local|; the sample data of ZIP
\* 11354 give 4, 3, 1, 0.
C12_BucketsByBranch ==
    \A s \in DOMAIN reqs :
        LET r == reqs[s]
            all == r.body.all
            bucket == r.body.by_branch
        IN  ZipAnswered(r) =>
              /\ \A b \in Branches :
                    \A i \in 1..Len(bucket[b]) : bucket[b][i].branch = b
              /\ \A b, c \in Branches :
                    b # c => Ids(bucket[b]) \cap Ids(bucket[c]) = {}
              /\ UNION { Range(bucket[b]) : b \in Branches } = Range(all)
              /\ r.body.count = Len(all)
              /\ Len(all) = Len(bucket.federal) + Len(bucket.state) + Len(bucket.local)
              /\ (db = SampleDb /\ r.body.zip = "11354") =>
                    /\ r.body.count = 4
                    /\ Len(bucket.federal) = 3
                    /\ Len(bucket.state) = 1
                    /\ Len(bucket.local) = 0

\* a response with a representative of branch state mapped at the federal
\* level, found in the state bucket
C12_Witness ==
    \E s \in DOMAIN reqs :
        /\ ZipAnswered(reqs[s])
        /\ \E x \in Range(reqs[s].body.by_branch.state) :
              x.branch = "state" /\ x.jurisdiction_level = "federal"

\* a finished search that was answered with a page of results
SearchAnswered(r) == Done(r) /\ r.route = "/search" /\ r.status = 200

\* the representatives that match the criteria of a search: active, name and
\* party containing the given text in any case, of the given branch, mapped
\* to a geography of the given state
SearchMatching(q) ==
    { x \in db.representatives :
        /\ x.is_active
        /\ ~EmptyParam(q, "name") => ILike(Spelling(x.name), Spelling(q.name))
        /\ ~EmptyParam(q, "party") => ILike(Spelling(x.party), Spelling(q.party))
        /\ ~EmptyParam(q, "branch") => x.branch = q.branch
        /\ ~EmptyParam(q, "state") =>
              \E m \in db.rep_geography_map, g \in db.geography :
                  /\ m.representative_id = x.id
                  /\ m.geography_id = g.id
                  /\ UpperStr(Spelling(g.state)) = UpperStr(Spelling(q.state)) }

\* C13: pagination.total of a search is the number of distinct
\* representatives that match the criteria, whatever limit and offset are and
\* however many geographies a representative is mapped to.
C13_SearchTotal ==
    \A s \in DOMAIN reqs :
        LET r == reqs[s]
        IN  SearchAnswered(r) =>
                r.body.total = Cardinality(SearchMatching(r.query))

\* the statements issued on the client of a transaction
IssuedOn(x, text) == \E i \in 1..Len(x.log) : x.log[i] = text

\* C14: the work of a transaction is made durable only when BEGIN, every
\* statement of the callback and COMMIT succeeded; when one of them fails,
\* ROLLBACK is issued, none of the work is durable, and the caller receives
\* the failure that caused the rollback.
C14_AllOrNothing ==
    \A t \in Callers :
        LET x == transactions[t]
        IN  /\ (\E w \in committed : w.caller = t) =>
                  /\ x.returned /\ x.error = "none"
                  /\ x.stepsDone = x.steps
                  /\ Work(t, x) \subseteq committed
            /\ (x.pc = "done" /\ x.error # "none") =>
                  /\ IssuedOn(x, "ROLLBACK")
                  /\ ~x.returned
                  /\ ~\E w \in committed : w.caller = t
                  /\ x.thrown = x.error

\* A limiter call of client k at time now, seen as a step: the stored
\* timestamps that are kept are those that satisfy Counted; the call is
\* rejected iff at least maxRequests are kept, and otherwise the kept
\* timestamps followed by now are stored for k.
LimiterCall(Counted(_)) ==
    Len(calls') = Len(calls) + 1 =>
        LET e == calls'[Len(calls')]
            kept == SelectSeq(clientRequests(rateLimitStore, e.client), Counted)
        IN  /\ e.accepted <=> Len(kept) < maxRequests
            /\ e.accepted => rateLimitStore'[e.client] = Append(kept, now)

OlderDiscarded(t) == ~(t < now - windowMs)

NotNewerDiscarded(t) == ~(t <= now - windowMs)

\* C15 as stated: the timestamps discarded by a limiter call at time now are
\* exactly those with t < now - window, so that a timestamp equal to
\* now - window still counts; the call is rejected iff the remaining count is
\* >= max, and otherwise now is appended.
C15_PruneOlder == [][LimiterCall(OlderDiscarded)]_vars

\* C15, amended: the timestamps discarded are exactly those with
\* t <= now - window, so that a timestamp equal to now - window no longer
\* counts; the call is rejected iff the remaining count is >= max, and
\* otherwise now is appended.
C15_PruneNotNewer == [][LimiterCall(NotNewerDiscarded)]_vars

\* with max = 1, a call is accepted exactly one window after the accepted
\* call before it
C15_Witness ==
    /\ maxRequests = 1
    /\ \E i, j \in 1..Len(calls) :
          /\ i < j
          /\ calls[i].client = calls[j].client
          /\ calls[i].accepted /\ calls[j].accepted
          /\ calls[j].at = calls[i].at + windowMs

\* the accepted calls of client k, in the order in which they were made
AcceptedCalls(k) ==
    LET ByK(e) == e.client = k /\ e.accepted
    IN  SelectSeq(calls, ByK)

\* C16: the limiter's read-prune-check-append on a key is atomic, whatever
\* requests of that key are in flight: every accepted call is in the count of
\* the calls after it (the stored sequence of a key is the accepted calls of
\* the key inside the window of the last accepted one, none lost), and the
\* accepted calls with timestamps inside any one window (t - window, t] never
\* exceed max.
C16_LimiterAtomic ==
    \A k \in Clients :
        LET acc == AcceptedCalls(k)
            last == acc[Len(acc)].at
            InWindow(e) == e.at > last - windowMs
            recent == SelectSeq(acc, InWindow)
        IN  /\ \A t \in 0..MaxClock :
                  Cardinality({ i \in 1..Len(acc) :
                                  acc[i].at > t - windowMs /\ acc[i].at <= t })
                      <= maxRequests
            /\ IF acc = <<>> THEN k \notin DOMAIN rateLimitStore
               ELSE /\ k \in DOMAIN rateLimitStore
                    /\ rateLimitStore[k] = [i \in 1..Len(recent) |-> recent[i].at]

\* while an accepted request of a client is suspended at a storage query, two
\* more calls of that client arrive at the same time: one is accepted, which
\* fills the budget of 2, and the next is rejected
C16_Witness ==
    /\ maxRequests = 2
    /\ Len(calls) >= 3
    /\ LET n == Len(calls)
       IN  /\ calls[n].client = calls[n - 1].client /\ calls[n].client = calls[n - 2].client
           /\ calls[n - 2].accepted /\ calls[n - 1].accepted /\ ~calls[n].accepted
           /\ calls[n].at = calls[n - 2].at
           /\ \E s \in DOMAIN reqs :
                 /\ reqs[s].client = calls[n].client
                 /\ reqs[s].pc \in {"geo_query", "rep_query"}

\* the stages in the order of the control flow
StageOrder ==
    <<"rateLimit", "validate", "geoQuery", "repQuery", "detailQuery", "searchQuery",
      "respond">>

\* C17: a request passes the stages in the order rate limiter, validator,
\* geography query, representatives query, response; a request rejected at
\* a stage (429, 422, 404) has triggered no later stage; and one response is
\* sent per request, none before it is finished and exactly one after.
C17_StageOrder ==
    \A s \in DOMAIN reqs :
        LET r == reqs[s]
            tr == r.trace
            responses == { i \in 1..Len(tr) : tr[i] = "respond" }
        IN  r.pc # "idle" =>
              /\ tr[1] = "rateLimit"
              /\ IsSubsequence(tr, StageOrder)
              /\ Issued(r, "repQuery") => Issued(r, "geoQuery")
              /\ Issued(r, "geoQuery") => Issued(r, "validate")
              /\ Cardinality(responses) = IF Done(r) THEN 1 ELSE 0
              /\ Done(r) => tr[Len(tr)] = "respond"
              /\ r.status = 429 => tr = <<"rateLimit", "respond">>
              /\ r.status = 422 => tr = <<"rateLimit", "validate", "respond">>
              /\ (r.status = 404 /\ r.route = "/") =>
                    tr = <<"rateLimit", "validate", "geoQuery", "respond">>
              /\ (r.status = 200 /\ r.route = "/") =>
                    tr = <<"rateLimit", "validate", "geoQuery", "repQuery", "respond">>

\* a ZIP lookup that passed the limiter and the validator was answered 404
\* after the geography query
C17_Witness ==
    \E s \in DOMAIN reqs :
        /\ reqs[s].route = "/"
        /\ reqs[s].status = 404
        /\ reqs[s].trace = <<"rateLimit", "validate", "geoQuery", "respond">>

\* the limit a search asks for: 20 unless the query string gives one
RequestedLimit(q) ==
    IF ~Has(q, "limit") THEN 20
    ELSE CASE q.limit = "1" -> 1
           [] q.limit = "5" -> 5

\* C18: has_more of a search is true exactly when the page holds as many
\* rows as the limit asked for, also when no row exists beyond the page, and
\* false whenever the page is shorter than the limit.
C18_HasMore ==
    \A s \in DOMAIN reqs :
        LET r == reqs[s]
        IN  SearchAnswered(r) =>
              /\ r.body.limit = RequestedLimit(r.query)
              /\ Len(r.body.results) <= RequestedLimit(r.query)
              /\ r.body.has_more <=> Len(r.body.results) = RequestedLimit(r.query)

\* a page of 5 rows for a limit of 5 holds all 5 matching representatives,
\* and has_more is true
C18_Witness ==
    \E s \in DOMAIN reqs :
        LET r == reqs[s]
        IN  /\ SearchAnswered(r)
            /\ r.body.has_more
            /\ r.body.offset = 0
            /\ Len(r.body.results) = 5
            /\ Cardinality(SearchMatching(r.query)) = 5

\* C19: a search never returns an inactive representative and never returns
\* an identifier twice in a page, also for a representative mapped to several
\* geographies of the state asked for.
C19_ActiveOnce ==
    \A s \in DOMAIN reqs :
        LET r == reqs[s]
            results == r.body.results
        IN  SearchAnswered(r) =>
              /\ \A i \in 1..Len(results) : results[i].is_active
              /\ \A i \in 1..Len(results) :
                    \E x \in db.representatives : x.id = results[i].id /\ x.is_active
              /\ \A i, j \in 1..Len(results) : results[i].id = results[j].id => i = j

\* a search by state returned a representative who is mapped to two
\* geographies of that state
C19_Witness ==
    \E s \in DOMAIN reqs :
        LET r == reqs[s]
        IN  /\ SearchAnswered(r)
            /\ Has(r.query, "state") /\ r.query.state = "ny"
            /\ \E i \in 1..Len(r.body.results) :
                  Cardinality({ m \in db.rep_geography_map :
                      /\ m.representative_id = r.body.results[i].id
                      /\ \E g \in db.geography :
                            g.id = m.geography_id /\ g.state = "NY" }) = 2

\* C20: every client key in the store maps to a non-empty sequence of at most
\* maxRequests timestamps in non-decreasing order, each of which is the time
\* of an accepted call of that key.
C20_StoreShape ==
    \A k \in DOMAIN rateLimitStore :
        LET q == rateLimitStore[k]
        IN  /\ Len(q) >= 1
            /\ Len(q) <= maxRequests
            /\ \A i, j \in 1..Len(q) : i < j => q[i] <= q[j]
            /\ \A i \in 1..Len(q) :
                  \E c \in 1..Len(calls) :
                      /\ calls[c].client = k
                      /\ calls[c].accepted
                      /\ calls[c].at = q[i]

\* a key holds two timestamps of different times after an older one was
\* pruned, and a call of the key has been rejected
C20_Witness ==
    \E k \in DOMAIN rateLimitStore :
        LET q == rateLimitStore[k]
        IN  /\ Len(q) = 2
            /\ q[1] < q[2]
            /\ \E c \in 1..Len(calls) :
                  calls[c].client = k /\ calls[c].accepted /\ calls[c].at < q[1]

\* C21: a limiter call of key k leaves the stored sequence of every other key
\* as it was, and a call that is rejected leaves the whole store as it was,
\* the entry of k included.
C21_LimiterFrame ==
    [][ Len(calls') = Len(calls) + 1 =>
          LET e == calls'[Len(calls')]
          IN  /\ \A k \in Clients \ {e.client} :
                    /\ (k \in DOMAIN rateLimitStore') = (k \in DOMAIN rateLimitStore)
                    /\ k \in DOMAIN rateLimitStore =>
                          rateLimitStore'[k] = rateLimitStore[k]
              /\ ~e.accepted => rateLimitStore' = rateLimitStore ]_vars

\* both keys have an entry, a call of one key was accepted after the other
\* key had its entry, and the last call was rejected
C21_Witness ==
    /\ DOMAIN rateLimitStore = Clients
    /\ Len(calls) >= 3
    /\ ~calls[Len(calls)].accepted
    /\ \E i, j \in 1..Len(calls) :
          /\ i < j
          /\ calls[i].accepted /\ calls[j].accepted
          /\ calls[i].client # calls[j].client

\* the ways a request that passed the limiter can end
Endings == {200, 400, 404, 422, 500}

\* C22: a request that passes the limiter takes one slot of its client's
\* budget when it is received, whether it is answered at once (422, 400) or
\* later (404, 500, 200); answering it gives nothing back; and a call that
\* finds max requests that passed inside the window is rejected with 429,
\* however those requests ended.
C22_SlotConsumed ==
    [][ IF Len(calls') = Len(calls) + 1
        THEN LET e == calls'[Len(calls')]
                 before == clientRequests(rateLimitStore, e.client)
                 inWindow == { i \in 1..Len(before) : before[i] > now - windowMs }
                 passed == AcceptedInWindow(e.client, now)
                 Answer(status) ==
                     \E s \in DOMAIN reqs :
                         reqs'[s].client = e.client /\ reqs'[s].status = status
             IN  /\ Cardinality(inWindow) = Cardinality(passed)
                 /\ Cardinality(passed) >= maxRequests => ~e.accepted /\ Answer(429)
                 /\ e.accepted =>
                       /\ Len(clientRequests(rateLimitStore', e.client)) =
                             Cardinality(inWindow) + 1
                       /\ \E st \in {0, 400, 422} : Answer(st)
        ELSE rateLimitStore' = rateLimitStore ]_vars

\* with a budget of 1, a request that passed the limiter has ended with 500
\* and the next request of the client, in the same window, was rejected
C22_Witness ==
    /\ maxRequests = 1
    /\ Len(calls) = 2
    /\ calls[1].accepted /\ ~calls[2].accepted
    /\ calls[2].at < calls[1].at + windowMs
    /\ \E s, t \in DOMAIN reqs :
          /\ reqs[s].status = 500
          /\ reqs[t].status = 429

\* C23: a transaction that has acquired a client releases it exactly once on
\* every path, when its COMMIT or its ROLLBACK has settled and not before,
\* and COMMIT is not issued after the callback or BEGIN failed.
C23_ReleaseOnce ==
    [][ \A t \in Callers :
          LET x == transactions[t]
              y == transactions'[t]
          IN  /\ y.released = IF y.pc = "done" /\ y.acquired THEN 1 ELSE 0
              /\ y.released # x.released =>
                    /\ x.pc \in {"commit", "rollback"}
                    /\ x.log[Len(x.log)] \in {"COMMIT", "ROLLBACK"}
                    /\ y.log = x.log
              /\ IssuedOn(y, "COMMIT") =>
                    /\ y.stepsDone = y.steps
                    /\ y.error \in {"none", "COMMIT"}
                    /\ \A i, j \in 1..Len(y.log) :
                          (y.log[i] = "ROLLBACK" /\ y.log[j] = "COMMIT") => j < i ]_vars

\* one caller's transaction ended with a failed ROLLBACK after a failed
\* statement of its callback, the other's with a successful COMMIT, and each
\* released its client once
C23_Witness ==
    \E t, u \in Callers :
        /\ transactions[t].pc = "done"
        /\ transactions[t].error = "callback"
        /\ transactions[t].thrown = "ROLLBACK"
        /\ transactions[t].released = 1
        /\ transactions[u].returned
        /\ transactions[u].released = 1

====
